---- MODULE Spec2Model ----
\* GemmaTransformerDecoder (torchtune/models/gemma/transformer.py): cache
\* lifecycle, causal-mask derivation and chunked output projection.
EXTENDS Integers, Sequences, FiniteSets, TLC

\* ---------------------------------------------------------------- bounds
NumLayers == 2          \* num_layers passed to the constructor
MaxSeqLen == 3          \* largest max_seq_len a decoder is constructed with
MaxChunks == 2          \* largest value given to set_num_output_chunks
MaxHidden == 1          \* hidden-state components range over 0..MaxHidden

\* ------------------------------------------------------- model constants
VocabSize == 2          \* rows of tok_embeddings.weight
EmbedDim == 1           \* columns of tok_embeddings.weight

\* Python's None, for optional tensors (a real tensor here is never empty)
\* and for optional ints (a real length is at least 1).
NoTensor == <<>>
NoInt == 0

Layers == 1..NumLayers
Positions(L) == 0..(L - 1)
ModelDtype == "bfloat16"

\* the two ValueErrors forward raises
ErrMissingPos == "ValueError: Caches are setup, but the position of input token is missing"
ErrMaskSet == "ValueError: An attention mask was set. Cannot use a non-causal mask for inference"
\* an exception raised inside a layer's own setup_caches
ErrLayer == "Error raised by layer.setup_caches"

VARIABLES
    max_seq_len,            \* self.max_seq_len
    norm_embeddings,        \* self.norm_embeddings
    cache_enabled,          \* layer.cache_enabled, per layer
    kv_cache,               \* per layer: fill level of its KV cache
    causal_mask,            \* self.causal_mask (NoTensor = None)
    num_output_chunks,      \* self.num_output_chunks
    encoder_max_seq_len,    \* self.encoder_max_seq_len (NoInt = attribute not set)
    decoder_max_seq_len,    \* self.decoder_max_seq_len (NoInt = attribute not set)
    setup_called,           \* has setup_caches been entered since construction
    call,                   \* the last call made on the decoder and its arguments
    raised,                 \* exception the last call ended with ("" = returned)
    layers_invoked,         \* number of layers the last forward call invoked
    layer_mask,             \* mask= handed to the layers by the last forward call
    h,                      \* hidden state the last forward call projected
    output                  \* value the last forward call returned

vars == <<max_seq_len, norm_embeddings, cache_enabled, kv_cache, causal_mask,
          num_output_chunks, encoder_max_seq_len, decoder_max_seq_len,
          setup_called, call, raised, layers_invoked, layer_mask, h, output>>

\* ------------------------------------------------------ tensor operators
Min(a, b) == IF a < b THEN a ELSE b
Max(S) == CHOOSE x \in S : \A y \in S : y <= x

\* torch.ones(n, n, dtype=torch.bool)
Ones(n) == [i \in 1..n |-> [j \in 1..n |-> TRUE]]

\* torch.tril(m): keep the entries on and below the main diagonal
\* (column - row <= 0), zero the others.  Row/column k of the tensor is
\* element k+1 of the sequence.
Tril(m) == [i \in 1..Len(m) |-> [j \in 1..Len(m[i]) |->
                    IF j - i <= 0 THEN m[i][j] ELSE FALSE]]

\* size of the mask built by setup_caches
MaskSizeFromDecoderLen(L, dec) == IF dec # NoInt THEN dec ELSE L
MaskSize(L, dec) == L

\* self.causal_mask[None, input_pos]: one row of the mask per position
\* (the leading broadcast dimension of size 1 is left implicit).
GatherNext(m, input_pos) == [q \in 1..Len(input_pos) |->
                    m[Min(input_pos[q] + 2, Len(m))]]
Gather(m, input_pos) == [q \in 1..Len(input_pos) |-> m[input_pos[q] + 1]]

\* tok_embeddings.weight: [VocabSize, EmbedDim]
EmbeddingWeight == [k \in 1..VocabSize |-> [j \in 1..EmbedDim |-> k]]

\* self.tok_embeddings(tokens)
Embed(tokens) == [i \in 1..Len(tokens) |-> EmbeddingWeight[tokens[i] + 1]]

\* hidden_dim ** 0.5, exact for the perfect squares used as EmbedDim
Sqrt(n) == CHOOSE r \in 0..n : r * r = n

\* h * torch.tensor(hidden_dim ** 0.5, dtype=h.dtype)
ScaleEmbeddings(hid) == [i \in 1..Len(hid) |-> [j \in 1..Len(hid[i]) |->
                    hid[i][j] * Sqrt(Len(hid[i]))]]

RECURSIVE Dot(_, _, _)
Dot(x, w, n) == IF n = 0 THEN 0 ELSE x[n] * w[n] + Dot(x, w, n - 1)

\* F.linear(x, weight) = x @ weight.T
Linear(x, weight) == [i \in 1..Len(x) |-> [k \in 1..Len(weight) |->
                    Dot(x[i], weight[k], Len(weight[k]))]]

CeilDiv(a, b) == (a + b - 1) \div b

\* Tensor.chunk(chunks, dim=1): pieces of ceil(S / chunks) positions each,
\* the last one shorter when S is not a multiple; possibly fewer pieces
\* than asked for.
ChunkFloor(x, chunks) ==
    LET S == Len(x)
        size == IF S \div chunks = 0 THEN 1 ELSE S \div chunks
        n == CeilDiv(S, size)
    IN [k \in 1..Min(n, chunks) |-> SubSeq(x, (k - 1) * size + 1, Min(k * size, S))]
Chunk(x, chunks) ==
    LET S == Len(x)
        size == CeilDiv(S, chunks)
        n == CeilDiv(S, size)
    IN [k \in 1..n |-> SubSeq(x, (k - 1) * size + 1, Min(k * size, S))]

\* chunked_output(last_hidden_state)
chunked_output_first_piece(last_hidden_state, chunks) ==
    LET pieces == Chunk(last_hidden_state, chunks)
    IN [k \in 1..Len(pieces) |-> Linear(pieces[1], EmbeddingWeight)]
chunked_output(last_hidden_state, chunks) ==
    LET pieces == Chunk(last_hidden_state, chunks)
    IN [k \in 1..Len(pieces) |-> Linear(pieces[k], EmbeddingWeight)]

\* ------------------------------------------------------------ the layers
\* caches_are_setup(): layer 0 stands for all layers
caches_are_setup == cache_enabled[1]

\* layer.setup_caches(...): the layer allocates empty cache buffers (a
\* second call rebuilds them) and reports cache-enabled from then on.
LayerSetupCaches == [cache_enabled |-> TRUE, kv_cache |-> 0]

\* the layers the loop of setup_caches has set up when it ends: all of
\* them (failAt = 0), or those before layer failAt, whose setup raised.
LayerLoopSkipFirst(failAt) ==
    IF failAt = 0 THEN Layers \ {1} ELSE 2..(failAt - 1)
LayerLoop(failAt) == IF failAt = 0 THEN Layers ELSE 1..(failAt - 1)

\* positions a cache-enabled layer writes during layer(h, mask, input_pos)
WrittenPositions(seq_len, input_pos) ==
    IF input_pos = NoTensor THEN Positions(seq_len)
    ELSE {input_pos[q] : q \in 1..Len(input_pos)}

\* layer(h, mask=mask, input_pos=input_pos): a cache-enabled layer stores
\* the keys/values of the positions it is given; its cache is then filled
\* up to the highest position written so far.
LayerForward(l, seq_len, input_pos) ==
    IF cache_enabled[l]
    THEN Max({kv_cache[l]} \cup {p + 1 : p \in WrittenPositions(seq_len, input_pos)})
    ELSE kv_cache[l]

\* --------------------------------------------------------------- inputs
\* encoder_/decoder_max_seq_len: None, or a cache length other than max_seq_len
OptLens(L) == {NoInt, L + 1}
\* (batch_size, dtype) pairs given to setup_caches
CacheFormats == {<<1, "bfloat16">>, <<2, "float32">>}
\* token tensors: one per sequence length (the layers hide the token values
\* from everything the decoder itself computes)
Tokens(s) == {[i \in 1..s |-> (i - 1) % VocabSize]}
\* position tensors: consecutive absolute positions below L, as torch.arange gives
InputPos(s, L) == {[q \in 1..s |-> start + q - 1] : start \in 0..(L - s)}
\* a caller-supplied [s x s] attention mask (full attention)
ExplicitMask(s) == Ones(s)
\* hidden states a stack of shape-preserving layers and norm can produce
HiddenStates(s) == [1..s -> [1..EmbedDim -> 0..MaxHidden]]
\* a sample of them: two per shape, neighbouring positions differing
SampleHiddenStates(s) ==
    {[i \in 1..s |-> [j \in 1..EmbedDim |-> (i + c) % (MaxHidden + 1)]] : c \in 0..1}

NoOutput == [kind |-> "none", dtype |-> "", value |-> <<>>]
NoCall == [op |-> "__init__",
           encoder_max_seq_len |-> NoInt, decoder_max_seq_len |-> NoInt,
           seq_len |-> 0, mask |-> NoTensor, input_pos |-> NoTensor]

\* ----------------------------------------------------------------- Init
\* __init__
Init ==
    /\ max_seq_len \in {1, MaxSeqLen}
    /\ norm_embeddings \in BOOLEAN
    /\ cache_enabled = [l \in Layers |-> FALSE]
    /\ kv_cache = [l \in Layers |-> 0]
    /\ causal_mask = NoTensor
    /\ num_output_chunks = 0
    /\ encoder_max_seq_len = NoInt
    /\ decoder_max_seq_len = NoInt
    /\ setup_called = FALSE
    /\ call = NoCall
    /\ raised = ""
    /\ layers_invoked = 0
    /\ layer_mask = NoTensor
    /\ h = NoTensor
    /\ output = NoOutput

\* -------------------------------------------------------------- actions
\* set_num_output_chunks(num_output_chunks)
SetNumOutputChunks(n) ==
    /\ num_output_chunks' = n
    /\ call' = [NoCall EXCEPT !.op = "set_num_output_chunks"]
    /\ raised' = ""
    /\ layers_invoked' = 0
    /\ layer_mask' = NoTensor
    /\ h' = NoTensor
    /\ output' = NoOutput
    /\ UNCHANGED <<max_seq_len, norm_embeddings, cache_enabled, kv_cache,
                   causal_mask, encoder_max_seq_len, decoder_max_seq_len,
                   setup_called>>

\* setup_caches(batch_size, dtype, encoder_max_seq_len=, decoder_max_seq_len=)
\* batch_size and dtype only travel on to the layers' own setup_caches.
\* failAt = 0: every layer's setup returns; failAt = k: layer k's setup raises.
SetupCaches(batch_size, dtype, enc, dec, failAt) ==
    /\ setup_called' = TRUE
    /\ encoder_max_seq_len' = IF enc # NoInt THEN enc ELSE encoder_max_seq_len
    /\ decoder_max_seq_len' = IF dec # NoInt THEN dec ELSE decoder_max_seq_len
    /\ cache_enabled' = [l \in Layers |->
            IF l \in LayerLoop(failAt) THEN LayerSetupCaches.cache_enabled
            ELSE cache_enabled[l]]
    /\ kv_cache' = [l \in Layers |->
            IF l \in LayerLoop(failAt) THEN LayerSetupCaches.kv_cache
            ELSE kv_cache[l]]
    /\ causal_mask' = IF failAt = 0
                      THEN Tril(Ones(MaskSize(max_seq_len, dec)))
                      ELSE causal_mask
    /\ raised' = IF failAt = 0 THEN "" ELSE ErrLayer
    /\ <<batch_size, dtype>> \in CacheFormats
    /\ call' = [NoCall EXCEPT !.op = "setup_caches", !.encoder_max_seq_len = enc,
                              !.decoder_max_seq_len = dec]
    /\ layers_invoked' = 0
    /\ layer_mask' = NoTensor
    /\ h' = NoTensor
    /\ output' = NoOutput
    /\ UNCHANGED <<max_seq_len, norm_embeddings, num_output_chunks>>

\* the checks forward makes when self.causal_mask is not None
ForwardErrorNoPosCheck(mask, input_pos) ==
    IF causal_mask # NoTensor /\ mask # NoTensor THEN ErrMaskSet
    ELSE ""
ForwardErrorNoMaskCheck(mask, input_pos) ==
    IF causal_mask # NoTensor /\ input_pos = NoTensor THEN ErrMissingPos
    ELSE ""
ForwardError(mask, input_pos) ==
    IF causal_mask # NoTensor /\ input_pos = NoTensor THEN ErrMissingPos
    ELSE IF causal_mask # NoTensor /\ mask # NoTensor THEN ErrMaskSet
    ELSE ""

\* the layers the loop of forward invokes: none when a check raised first
LayersInvokedAlways(err) == Layers
LayersInvoked(err) == IF err # "" THEN {} ELSE Layers

\* forward(tokens, mask=, input_pos=); hidden is what the layers and the
\* final norm make of the embedded tokens.
Forward(tokens, mask, input_pos, hidden) ==
    LET seq_len == Len(tokens)
        embedded == Embed(tokens)
        err == ForwardError(mask, input_pos)
        mask2 == IF causal_mask # NoTensor
                 THEN Gather(causal_mask, input_pos) ELSE mask
        scaled == IF norm_embeddings THEN ScaleEmbeddings(embedded) ELSE embedded
    IN
    /\ Len(hidden) = Len(scaled)
    /\ call' = [NoCall EXCEPT !.op = "forward", !.seq_len = seq_len,
                              !.mask = mask, !.input_pos = input_pos]
    /\ raised' = err
    /\ layers_invoked' = Cardinality(LayersInvoked(err))
    /\ kv_cache' = [l \in Layers |->
            IF l \in LayersInvoked(err) THEN LayerForward(l, seq_len, input_pos)
            ELSE kv_cache[l]]
    /\ layer_mask' = IF LayersInvoked(err) # {} THEN mask2 ELSE NoTensor
    /\ IF err # ""
       THEN /\ h' = NoTensor
            /\ output' = NoOutput
       ELSE /\ h' = hidden
            /\ output' = IF num_output_chunks > 0
                         THEN [kind |-> "list", dtype |-> ModelDtype,
                               value |-> chunked_output(hidden, num_output_chunks)]
                         ELSE [kind |-> "tensor", dtype |-> "float32",
                               value |-> Linear(hidden, EmbeddingWeight)]
    /\ UNCHANGED <<max_seq_len, norm_embeddings, cache_enabled, causal_mask,
                   num_output_chunks, encoder_max_seq_len, decoder_max_seq_len,
                   setup_called>>

Next ==
    \/ \E n \in 0..MaxChunks : SetNumOutputChunks(n)
    \/ \E fmt \in CacheFormats, enc \in OptLens(max_seq_len),
          dec \in OptLens(max_seq_len), failAt \in 0..NumLayers :
                SetupCaches(fmt[1], fmt[2], enc, dec, failAt)
    \/ \E s \in 1..max_seq_len :
          \E tokens \in Tokens(s), mask \in {NoTensor, ExplicitMask(s)},
             input_pos \in {NoTensor} \cup InputPos(s, max_seq_len),
             hidden \in SampleHiddenStates(s) :
                Forward(tokens, mask, input_pos, hidden)

Spec == Init /\ [][Next]_vars

\* The output projection on every hidden state of the bounded shapes: a
\* decoder without caches, its chunk count set at will.
NextProjection ==
    \/ \E n \in 0..MaxChunks : SetNumOutputChunks(n)
    \/ \E s \in 1..max_seq_len :
          \E tokens \in Tokens(s), mask \in {NoTensor, ExplicitMask(s)},
             input_pos \in {NoTensor} \cup InputPos(s, max_seq_len),
             hidden \in HiddenStates(s) :
                Forward(tokens, mask, input_pos, hidden)

SpecProjection == Init /\ [][NextProjection]_vars

\* ------------------------------------------------------------ properties
forwardCalled == call.op = "forward"
setupReturned == call.op = "setup_caches" /\ raised = ""
cachedMode == causal_mask # NoTensor

\* C1: the causal mask is present exactly when caches_are_setup() is true.
C1_MaskIffCachesSetup == (causal_mask # NoTensor) <=> caches_are_setup

\* C2: forward in cached mode without input_pos raises the ValueError,
\* with or without an explicit mask.
C2_MissingInputPosRejected ==
    (forwardCalled /\ cachedMode /\ call.input_pos = NoTensor)
        => raised \in {ErrMissingPos, ErrMaskSet}
C2_Witness ==
    /\ forwardCalled /\ cachedMode /\ call.input_pos = NoTensor
    /\ call.mask # NoTensor /\ raised = ErrMissingPos

\* C3: forward in cached mode with both input_pos and an explicit mask
\* raises the ValueError, and no mask is handed to any layer.
C3_MaskInCachedModeRejected ==
    (forwardCalled /\ cachedMode /\ call.input_pos # NoTensor /\ call.mask # NoTensor)
        => /\ raised \in {ErrMissingPos, ErrMaskSet}
           /\ layers_invoked = 0
           /\ layer_mask = NoTensor
C3_Witness ==
    /\ forwardCalled /\ cachedMode /\ call.input_pos # NoTensor
    /\ call.mask # NoTensor /\ raised = ErrMaskSet

\* the three precondition violations C4 lists, for the last forward call
missingPos == cachedMode /\ call.input_pos = NoTensor
maskInCachedMode == cachedMode /\ call.mask # NoTensor
chunksDoNotDivide == num_output_chunks > 0 /\ call.seq_len % num_output_chunks # 0

C6_ChunksMatchFullProjection ==
    (forwardCalled /\ raised = "" /\ num_output_chunks > 0
        /\ call.seq_len % num_output_chunks = 0) =>
        LET C == num_output_chunks
            w == call.seq_len \div C
            full == Linear(h, EmbeddingWeight)
        IN /\ output.kind = "list"
           /\ Len(output.value) = C
           /\ \A k \in 1..C : output.value[k] = SubSeq(full, (k - 1) * w + 1, k * w)
C6_Witness ==
    /\ forwardCalled /\ raised = "" /\ num_output_chunks > 1
    /\ call.seq_len % num_output_chunks = 0
    /\ output.value[1] # output.value[2]

\* C7: after a successful setup_caches the causal mask is the L x L
\* lower-triangular matrix, L = max_seq_len, whatever lengths were passed.
C7_MaskIsLowerTriangular ==
    causal_mask # NoTensor =>
        /\ Len(causal_mask) = max_seq_len
        /\ \A i \in Positions(max_seq_len) :
            /\ Len(causal_mask[i + 1]) = max_seq_len
            /\ \A j \in Positions(max_seq_len) : causal_mask[i + 1][j + 1] = (j <= i)
C7_Witness ==
    /\ setupReturned
    /\ call.decoder_max_seq_len \notin {NoInt, max_seq_len}
    /\ call.encoder_max_seq_len = NoInt /\ encoder_max_seq_len # NoInt

\* C8: caches_are_setup() is false until setup_caches is first called and
\* true right after a setup_caches call returns.
C8_CachesSetupTracksSetup ==
    /\ ~setup_called => ~caches_are_setup
    /\ setupReturned => caches_are_setup
C8_Witness ==
    /\ setupReturned /\ caches_are_setup
    /\ \A l \in Layers : cache_enabled[l] /\ kv_cache[l] = 0

\* C9: in cached mode the mask handed to every layer has, for each given
\* position p, TRUE in columns 0..p and FALSE in columns p+1..max_seq_len-1.
C9_DerivedMaskRows ==
    (forwardCalled /\ cachedMode /\ raised = "") =>
        /\ layers_invoked = NumLayers
        /\ Len(layer_mask) = Len(call.input_pos)
        /\ \A q \in 1..Len(call.input_pos) :
            /\ Len(layer_mask[q]) = max_seq_len
            /\ \A c \in Positions(max_seq_len) :
                    layer_mask[q][c + 1] = (c <= call.input_pos[q])
C9_Witness ==
    /\ forwardCalled /\ cachedMode /\ raised = ""
    /\ Len(call.input_pos) = 1
    /\ call.input_pos[1] \notin {0, max_seq_len - 1}

\* C10: all layers are cache-enabled together or none is.
C10_LayersUniform == \A l \in Layers : cache_enabled[l] = cache_enabled[1]
====
